---- MODULE Spec2Model ----
(***************************************************************************)
(* A model of pdns_redis.py: the record store behind the mock Redis, the   *)
(* add / query / delete tasks, the TTL decoding of AddOp, and the PowerDNS *)
(* pipe-backend conversation of PdnsChatter.                               *)
(*                                                                         *)
(* Representation.  A Python string that the program only compares is a    *)
(* TLA+ string.  A domain name is the sequence of its dot-separated labels *)
(* (foo.bar.com is <<"foo","bar","com">>, the empty string is <<>>), so    *)
(* that DSplit is computed.  A TTL argument is the sequence of its         *)
(* characters, so that int() and the suffix test are computed.  A stored   *)
(* TTL or counter, in Python the decimal string str(int), is the integer.  *)
(* A hash field "TYPE\tDATA" is the pair <<TYPE, DATA>>.                   *)
(***************************************************************************)
EXTENDS Integers, Sequences, FiniteSets, TLC

VARIABLES
    data,        \* MockRedis.data: key -> (field -> value)
    last,        \* the operation that ran last: its arguments, its result and
                 \* (before) the store it started from
    pc,          \* PdnsChatter.Run: position of the conversation
    local_ip,    \* PdnsChatter.local_ip
    log_buffer,  \* PdnsChatter.log_buffer
    wildcards,   \* PdnsChatter.wildcards
    magic_tests  \* PdnsChatter.magic_tests: url -> result of the self-test

vars == <<data, last, pc, local_ip, log_buffer, wildcards, magic_tests>>

-----------------------------------------------------------------------------
(* Bounds of the model *)

\* Largest value the query counter of a key is driven to.
MaxQC == 2
\* Largest number of fields an add grows the store to.
MaxFields == 2
\* Longest TTL argument, in characters, of the TTL decoding specification.
MaxTtlLen == 3

-----------------------------------------------------------------------------
(* Program constants *)

None == "None"
VALID_RECORDS == {"A", "AAAA", "NS", "MX", "CNAME", "SOA", "TXT"}
TTL_SUFFIXES == [c \in {"M", "H", "D", "W"} |->
                   CASE c = "M" -> 60
                     [] c = "H" -> 60 * 60
                     [] c = "D" -> 60 * 60 * 24
                     [] c = "W" -> 60 * 60 * 24 * 7]
MAGIC_SELF_IP == "self"
MAGIC_TEST_VALIDITY == 60
\* PdnsChatter.__init__: magic_tests = {}
NoTests == [u \in {} |-> 0]
REDIS_PREFIX == "pdns."
QC_FIELD == <<"TXT", "QC">>

\* Python truth value of a string or None.
Truthy(s) == s # None /\ s # ""

-----------------------------------------------------------------------------
(* str.upper and str.lower on the strings of the model *)

UpperMap == [s \in {"a", "mx", "txt", "m", "h", "d", "w"} |->
               CASE s = "a" -> "A" [] s = "mx" -> "MX" [] s = "txt" -> "TXT"
                 [] s = "m" -> "M" [] s = "h" -> "H" [] s = "d" -> "D"
                 [] s = "w" -> "W"]
Upper(s) == IF s \in DOMAIN UpperMap THEN UpperMap[s] ELSE s

LowerMap == [s \in {"FOO", "BAR", "COM"} |->
               CASE s = "FOO" -> "foo" [] s = "BAR" -> "bar" [] s = "COM" -> "com"]
LowerLabel(s) == IF s \in DOMAIN LowerMap THEN LowerMap[s] ELSE s
Lower(domain) == [i \in 1..Len(domain) |-> LowerLabel(domain[i])]

-----------------------------------------------------------------------------
(* int(): an optional sign and then one or more decimal digits *)

Digits == {"0", "1", "2", "3", "4", "5", "6", "7", "8", "9"}
DigitVal(c) == CASE c = "0" -> 0 [] c = "1" -> 1 [] c = "2" -> 2 [] c = "3" -> 3
                 [] c = "4" -> 4 [] c = "5" -> 5 [] c = "6" -> 6 [] c = "7" -> 7
                 [] c = "8" -> 8 [] c = "9" -> 9

RECURSIVE DigitsVal(_)
DigitsVal(s) == IF s = <<>> THEN 0
                ELSE 10 * DigitsVal(SubSeq(s, 1, Len(s) - 1)) + DigitVal(s[Len(s)])

AllDigits(s) == Len(s) > 0 /\ \A i \in 1..Len(s) : s[i] \in Digits

\* int(s): [ok |-> TRUE, val |-> n], or ok = FALSE where Python raises ValueError
Int_(s) ==
    IF Len(s) > 0 /\ s[1] \in {"-", "+"}
    THEN IF AllDigits(Tail(s))
         THEN [ok |-> TRUE,
               val |-> IF s[1] = "-" THEN 0 - DigitsVal(Tail(s)) ELSE DigitsVal(Tail(s))]
         ELSE [ok |-> FALSE, val |-> 0]
    ELSE IF AllDigits(s) THEN [ok |-> TRUE, val |-> DigitsVal(s)]
         ELSE [ok |-> FALSE, val |-> 0]

\* a decoding that tests the suffix without upper()
DecodeTtl_case(ttl) ==
    IF Len(ttl) > 0 /\ ttl[Len(ttl)] \in DOMAIN TTL_SUFFIXES
    THEN LET n == Int_(SubSeq(ttl, 1, Len(ttl) - 1))
         IN  [ok |-> n.ok, val |-> n.val * TTL_SUFFIXES[ttl[Len(ttl)]]]
    ELSE Int_(ttl)

\* AddOp.__init__, the TTL part: the suffix test and the conversion
DecodeTtl(ttl) ==
    IF Len(ttl) > 0 /\ Upper(ttl[Len(ttl)]) \in DOMAIN TTL_SUFFIXES
    THEN LET n == Int_(SubSeq(ttl, 1, Len(ttl) - 1))
         IN  [ok |-> n.ok, val |-> n.val * TTL_SUFFIXES[Upper(ttl[Len(ttl)])]]
    ELSE Int_(ttl)

-----------------------------------------------------------------------------
(* MockRedis.  BE() and WBE() hand out the same store: no write host is   *)
(* set, as PdnsRedis.__init__ leaves it.                                   *)

hexists(be, key, hkey) == key \in DOMAIN be /\ hkey \in DOMAIN be[key]

\* hget: the stored value; None is told apart with hexists
hget(be, key, hkey) == be[key][hkey]

hgetall(be, key) == IF key \in DOMAIN be THEN be[key] ELSE <<>>

\* an hset that keeps the value of a field that is already there
hset_keep(be, key, hkey, val) ==
    LET h == hgetall(be, key)
    IN  [k \in DOMAIN be \cup {key} |->
            IF k = key
            THEN [f \in DOMAIN h \cup {hkey} |->
                     IF f \in DOMAIN h THEN h[f] ELSE val]
            ELSE be[k]]


hset(be, key, hkey, val) ==
    LET h == hgetall(be, key)
    IN  [k \in DOMAIN be \cup {key} |->
            IF k = key
            THEN [f \in DOMAIN h \cup {hkey} |-> IF f = hkey THEN val ELSE h[f]]
            ELSE be[k]]

\* an hincrby that stores the increment in place of the sum
hincrby_set(be, key, hkey, val) ==
    LET h == hgetall(be, key)
    IN  [k \in DOMAIN be \cup {key} |->
            IF k = key
            THEN [f \in DOMAIN h \cup {hkey} |-> IF f = hkey THEN val ELSE h[f]]
            ELSE be[k]]


hincrby(be, key, hkey, val) ==
    LET old == IF hexists(be, key, hkey) THEN be[key][hkey] ELSE 0
    IN  hset(be, key, hkey, old + val)

\* an hdel that empties the hash of the key
hdel_all(be, key, hkey) ==
    IF hexists(be, key, hkey)
    THEN [be EXCEPT ![key] = [f \in {} |-> 0]]
    ELSE be

hdel(be, key, hkey) ==
    IF hexists(be, key, hkey)
    THEN [be EXCEPT ![key] = [f \in DOMAIN be[key] \ {hkey} |-> be[key][f]]]
    ELSE be
\* what MockRedis.hdel returns: True in both branches, 1 when added to a count
hdel_result(be, key, hkey) == 1

\* a delete that spares the query counter of the key
delete_keep_qc(be, key) ==
    [k \in {x \in DOMAIN be : x # key \/ QC_FIELD \in DOMAIN be[x]} |->
        IF k = key THEN [f \in {QC_FIELD} |-> be[k][f]] ELSE be[k]]


delete(be, key) == [k \in DOMAIN be \ {key} |-> be[k]]
delete_result(be, key) == key \in DOMAIN be

-----------------------------------------------------------------------------
(* QueryOp *)

\* QueryOp.__init__: the argument check and the normalisation of the fields
QueryOpInit(domain, record, rdata) ==
    [exc    |-> IF domain = <<>> THEN "ArgumentError" ELSE "none",
     domain |-> Lower(domain),
     record |-> IF Truthy(record) THEN Upper(record) ELSE None,
     data   |-> rdata]

\* str.split('.', 1) followed by the unpacking into two names:
\* ok = FALSE where the unpacking raises ValueError
DSplit(domain) ==
    IF Len(domain) >= 2
    THEN [ok |-> TRUE, sub |-> Head(domain), dom |-> Tail(domain)]
    ELSE [ok |-> FALSE, sub |-> "", dom |-> <<>>]

\* The orders in which a dict may hand out the fields of S
Orders(S) == {o \in [1..Cardinality(S) -> S] :
                 \A i, j \in 1..Cardinality(S) : i # j => o[i] # o[j]}

\* Query: the set of possible outcomes [rv, be], one per iteration order of
\* the hash.  domain = <<>> is the default argument domain=None.
RECURSIVE Query(_, _, _, _)
\* a fallback that puts the wildcard label in front of the whole domain
WildQuery_whole(be, self, domain) ==
    IF ~DSplit(domain).ok THEN {[rv |-> <<>>, be |-> be]}
    ELSE Query(be, self, <<"*">> \o domain, FALSE)


WildQuery(be, self, domain) ==
    LET s1 == DSplit(domain)
        s2 == DSplit(s1.dom)
    IN  IF ~s1.ok THEN {[rv |-> <<>>, be |-> be]}
        ELSE IF s1.sub = "*"
             THEN IF ~s2.ok THEN {[rv |-> <<>>, be |-> be]}
                  ELSE Query(be, self, <<"*">> \o s2.dom, FALSE)
             ELSE Query(be, self, <<"*">> \o s1.dom, FALSE)

\* a query that counts before it looks whether anything matched
Query_early(be, self, domain, wild) ==
    LET dom      == IF domain # <<>> THEN domain ELSE self.domain
        pdns_key == <<REDIS_PREFIX>> \o dom
        key      == <<self.record, self.data>>
        ddata    == hgetall(be, pdns_key)
        match    == IF Truthy(self.record)
                    THEN {e \in DOMAIN ddata : e[1] = self.record}
                    ELSE IF Truthy(self.data)
                         THEN {e \in DOMAIN ddata : e[2] = self.data}
                         ELSE DOMAIN ddata
    IN  IF Truthy(self.record) /\ Truthy(self.data)
        THEN IF hexists(be, pdns_key, key)
             THEN {[rv |-> << <<self.domain, self.record,
                               hget(be, pdns_key, key), self.data>> >>,
                    be |-> hincrby(be, pdns_key, QC_FIELD, 1)]}
             ELSE IF wild THEN WildQuery(be, self, dom)
                  ELSE {[rv |-> <<>>, be |-> be]}
        ELSE IF match # {}
             THEN {[rv |-> [i \in 1..Cardinality(match) |->
                              <<self.domain, o[i][1], ddata[o[i]], o[i][2]>>],
                    be |-> hincrby(be, pdns_key, QC_FIELD, 1)] : o \in Orders(match)}
             ELSE IF wild
                  THEN WildQuery(hincrby(be, pdns_key, QC_FIELD, 1), self, dom)
                  ELSE {[rv |-> <<>>, be |-> hincrby(be, pdns_key, QC_FIELD, 1)]}

\* a query that leaves the counter out of the result without filters
Query_noqc(be, self, domain, wild) ==
    LET dom      == IF domain # <<>> THEN domain ELSE self.domain
        pdns_key == <<REDIS_PREFIX>> \o dom
        key      == <<self.record, self.data>>
        ddata    == hgetall(be, pdns_key)
        match    == IF Truthy(self.record)
                    THEN {e \in DOMAIN ddata : e[1] = self.record}
                    ELSE IF Truthy(self.data)
                         THEN {e \in DOMAIN ddata : e[2] = self.data}
                         ELSE DOMAIN ddata \ {QC_FIELD}
    IN  IF Truthy(self.record) /\ Truthy(self.data)
        THEN IF hexists(be, pdns_key, key)
             THEN {[rv |-> << <<self.domain, self.record,
                               hget(be, pdns_key, key), self.data>> >>,
                    be |-> hincrby(be, pdns_key, QC_FIELD, 1)]}
             ELSE IF wild THEN WildQuery(be, self, dom)
                  ELSE {[rv |-> <<>>, be |-> be]}
        ELSE IF match # {}
             THEN {[rv |-> [i \in 1..Cardinality(match) |->
                              <<self.domain, o[i][1], ddata[o[i]], o[i][2]>>],
                    be |-> hincrby(be, pdns_key, QC_FIELD, 1)] : o \in Orders(match)}
             ELSE IF wild THEN WildQuery(be, self, dom)
                  ELSE {[rv |-> <<>>, be |-> be]}

Query(be, self, domain, wild) ==
    LET dom      == IF domain # <<>> THEN domain ELSE self.domain
        pdns_key == <<REDIS_PREFIX>> \o dom
        key      == <<self.record, self.data>>
        ddata    == hgetall(be, pdns_key)
        match    == IF Truthy(self.record)
                    THEN {e \in DOMAIN ddata : e[1] = self.record}
                    ELSE IF Truthy(self.data)
                         THEN {e \in DOMAIN ddata : e[2] = self.data}
                         ELSE DOMAIN ddata
    IN  IF Truthy(self.record) /\ Truthy(self.data)
        THEN IF hexists(be, pdns_key, key)
             THEN {[rv |-> << <<self.domain, self.record,
                               hget(be, pdns_key, key), self.data>> >>,
                    be |-> hincrby(be, pdns_key, QC_FIELD, 1)]}
             ELSE IF wild THEN WildQuery(be, self, dom)
                  ELSE {[rv |-> <<>>, be |-> be]}
        ELSE IF match # {}
             THEN {[rv |-> [i \in 1..Cardinality(match) |->
                              <<self.domain, o[i][1], ddata[o[i]], o[i][2]>>],
                    be |-> hincrby(be, pdns_key, QC_FIELD, 1)] : o \in Orders(match)}
             ELSE IF wild THEN WildQuery(be, self, dom)
                  ELSE {[rv |-> <<>>, be |-> be]}

-----------------------------------------------------------------------------
(* DeleteOp and AddOp *)

\* a loop that ends after the first record
hdel_each_first(be, key, rv) ==
    IF rv = <<>> THEN [be |-> be, deleted |-> 0]
    ELSE LET hkey == <<Head(rv)[2], Head(rv)[4]>>
         IN  [be |-> hdel(be, key, hkey),
              deleted |-> hdel_result(be, key, hkey)]

RECURSIVE hdel_each(_, _, _)
\* the loop of DeleteOp.Run over the records Query returned
hdel_each(be, key, rv) ==
    IF rv = <<>> THEN [be |-> be, deleted |-> 0]
    ELSE LET hkey == <<Head(rv)[2], Head(rv)[4]>>
             rest == hdel_each(hdel(be, key, hkey), key, Tail(rv))
         IN  [be |-> rest.be,
              deleted |-> hdel_result(be, key, hkey) + rest.deleted]

\* a Run that reports a count of 0 when the domain has no key
DeleteRun_noop(be, self) ==
    LET key == <<REDIS_PREFIX>> \o self.domain
    IN  IF ~Truthy(self.record) /\ ~Truthy(self.data)
        THEN {[msg |-> IF delete_result(be, key) THEN "Deleted all records"
                       ELSE "Deleted records",
               deleted |-> 0, qbe |-> be, be |-> delete(be, key)]}
        ELSE IF Truthy(self.record) /\ Truthy(self.data)
             THEN {[msg |-> "Deleted records",
                    deleted |-> hdel_result(be, key, <<self.record, self.data>>),
                    qbe |-> be,
                    be |-> hdel(be, key, <<self.record, self.data>>)]}
             ELSE {[msg |-> "Deleted records",
                    deleted |-> hdel_each(q.be, key, q.rv).deleted,
                    qbe |-> q.be,
                    be |-> hdel_each(q.be, key, q.rv).be] :
                      q \in Query(be, self, <<>>, FALSE)}

\* DeleteOp.Run: the set of outcomes [msg, deleted, be]; qbe is the store
\* as the Query of the one-filter branch left it
DeleteRun(be, self) ==
    LET key == <<REDIS_PREFIX>> \o self.domain
    IN  IF ~Truthy(self.record) /\ ~Truthy(self.data)
        THEN {[msg |-> "Deleted all records", deleted |-> 0, qbe |-> be,
                be |-> delete(be, key)]}
        ELSE IF Truthy(self.record) /\ Truthy(self.data)
             THEN {[msg |-> "Deleted records",
                    deleted |-> hdel_result(be, key, <<self.record, self.data>>),
                    qbe |-> be,
                    be |-> hdel(be, key, <<self.record, self.data>>)]}
             ELSE {[msg |-> "Deleted records",
                    deleted |-> hdel_each(q.be, key, q.rv).deleted,
                    qbe |-> q.be,
                    be |-> hdel_each(q.be, key, q.rv).be] :
                      q \in Query(be, self, <<>>, FALSE)}

\* a constructor without the test for empty data
AddOpInit_nodata(domain, record, rdata, ttl) ==
    LET q == QueryOpInit(domain, record, rdata)
        t == DecodeTtl(ttl)
    IN  [exc    |-> IF q.exc # "none" THEN q.exc
                    ELSE IF q.record \notin VALID_RECORDS THEN "ArgumentError"
                    ELSE IF ~t.ok THEN "ValueError"
                    ELSE "none",
         domain |-> q.domain, record |-> q.record, data |-> q.data,
         ttl    |-> t.val]

\* AddOp.__init__: exc names the exception raised, "none" when the task is built
AddOpInit(domain, record, rdata, ttl) ==
    LET q == QueryOpInit(domain, record, rdata)
        t == DecodeTtl(ttl)
    IN  [exc    |-> IF q.exc # "none" THEN q.exc
                    ELSE IF q.record \notin VALID_RECORDS THEN "ArgumentError"
                    ELSE IF ~Truthy(q.data) THEN "ArgumentError"
                    ELSE IF ~t.ok THEN "ValueError"
                    ELSE "none",
         domain |-> q.domain, record |-> q.record, data |-> q.data,
         ttl    |-> t.val]

\* a Run that replaces the hash of the key by the one field
AddRun_replace(be, self) ==
    [k \in DOMAIN be \cup {<<REDIS_PREFIX>> \o self.domain} |->
        IF k = <<REDIS_PREFIX>> \o self.domain
        THEN [f \in {<<self.record, self.data>>} |-> self.ttl]
        ELSE be[k]]

\* AddOp.Run
AddRun(be, self) ==
    hset(be, <<REDIS_PREFIX>> \o self.domain, <<self.record, self.data>>, self.ttl)

-----------------------------------------------------------------------------
(* Arguments the tasks are run with *)

DomainInputs == {<<"foo", "bar", "com">>, <<"FOO", "bar", "com">>,
                 <<"*", "bar", "com">>}
QueryDomains == DomainInputs \cup {<<"com">>}
RecordInputs == {"A", "mx", "TXT", "SRV", None}
DataInputs   == {"1.2.3.4", "10 mx1", "self", "self:ok:url", "QC", "", None}
TtlInputs    == {<<"1">>, <<"1", "M">>, <<"x">>, <<>>}

\* the records an add is tried with: every type with the data written for it
AddInputs ==
    {r \in RecordInputs \X DataInputs :
        /\ (r[2] = "10 mx1") <=> (r[1] = "mx")
        /\ (r[2] = "QC") => (r[1] = "TXT")
        /\ (r[2] \in {"self", "self:ok:url"}) => (r[1] = "A")
        /\ (r[1] \in {"SRV", None}) => (r[2] = "1.2.3.4")}

\* the filters a query or a delete is tried with
FilterRecords == {"A", "mx", "TXT", None}
FilterData    == {"1.2.3.4", "self", "QC", None}

\* the number of fields of the store, over all its keys
RECURSIVE SumFields(_, _)
SumFields(be, ks) ==
    IF ks = {} THEN 0
    ELSE LET k == CHOOSE x \in ks : TRUE
         IN  Cardinality(DOMAIN be[k]) + SumFields(be, ks \ {k})
NumFields(be) == SumFields(be, DOMAIN be)

\* the counter of a key is not driven past MaxQC
Capped(be, be2) ==
    \A k \in DOMAIN be2 :
        (QC_FIELD \in DOMAIN be2[k]
         /\ (~hexists(be, k, QC_FIELD) \/ be[k][QC_FIELD] # be2[k][QC_FIELD]))
        => be2[k][QC_FIELD] <= MaxQC

-----------------------------------------------------------------------------
(* The tasks: AddOp, QueryOp and DeleteOp, each built and then run *)

\* no task is running and no request is being answered
Idle == [op |-> "idle"]

Init ==
    /\ data = <<>>
    /\ last = Idle
    /\ pc = "NoChatter"
    /\ local_ip = None
    /\ log_buffer = <<>>
    /\ wildcards = FALSE
    /\ magic_tests = NoTests

AddTask ==
    /\ last = Idle
    /\ pc = "NoChatter"
    /\ \E domain \in DomainInputs, rec \in AddInputs, ttl \in TtlInputs :
        LET record == rec[1]
            rdata  == rec[2]
            self   == AddOpInit(domain, record, rdata, ttl)
            be2    == AddRun(data, self)
        IN  /\ IF self.exc = "none"
               THEN /\ NumFields(be2) <= MaxFields
                    /\ data' = be2
               ELSE data' = data
            /\ last' = [op |-> "add", domain |-> domain, record |-> record,
                        data |-> rdata, ttl |-> ttl, self |-> self,
                        before |-> data]
    /\ UNCHANGED <<pc, local_ip, log_buffer, wildcards, magic_tests>>

QueryTask ==
    /\ last = Idle
    /\ pc = "NoChatter"
    /\ \E domain \in QueryDomains, record \in FilterRecords,
          rdata \in FilterData, wild \in BOOLEAN :
        LET self == QueryOpInit(domain, record, rdata)
        IN  \E q \in Query(data, self, <<>>, wild) :
                /\ Capped(data, q.be)
                /\ data' = q.be
                /\ last' = [op |-> "query", domain |-> domain, record |-> record,
                            data |-> rdata, wild |-> wild, self |-> self,
                            rv |-> q.rv, before |-> data]
    /\ UNCHANGED <<pc, local_ip, log_buffer, wildcards, magic_tests>>

DeleteTask ==
    /\ last = Idle
    /\ pc = "NoChatter"
    /\ \E domain \in DomainInputs, record \in FilterRecords, rdata \in FilterData :
        LET self == QueryOpInit(domain, record, rdata)
        IN  \E d \in DeleteRun(data, self) :
                /\ Capped(data, d.qbe)
                /\ data' = d.be
                /\ last' = [op |-> "delete", domain |-> domain, record |-> record,
                            data |-> rdata, self |-> self,
                            msg |-> d.msg, deleted |-> d.deleted,
                            before |-> data]
    /\ UNCHANGED <<pc, local_ip, log_buffer, wildcards, magic_tests>>

\* RunTasks: the result of the task is written and the next task is taken
TaskDone ==
    /\ last.op \in {"add", "query", "delete"}
    /\ last' = Idle
    /\ UNCHANGED <<data, pc, local_ip, log_buffer, wildcards, magic_tests>>

Next == AddTask \/ QueryTask \/ DeleteTask \/ TaskDone

Spec == Init /\ [][Next]_vars

-----------------------------------------------------------------------------
(* PdnsChatter: reading and writing *)

BANNER == "pdns-redis.py, by Bjarni R. Einarsson"

\* An input line is the sequence of its tab-separated fields, the newline
\* left out: <<"">> is an empty line and <<>> is what readline returns at the
\* end of the input.  The domain field is a sequence of labels.

\* str.strip on one field: the fields of the model that carry blanks
StripField(f) == CASE f = "2 " -> "2" [] f = " " -> "" [] OTHER -> f

\* str.strip on a line: blanks and tabs go from both ends, so an empty field
\* at an end goes together with its tab
RECURSIVE RStrip(_)
RStrip(fs) ==
    LET l == StripField(fs[Len(fs)])
    IN  IF l = "" /\ Len(fs) > 1 THEN RStrip(SubSeq(fs, 1, Len(fs) - 1))
        ELSE SubSeq(fs, 1, Len(fs) - 1) \o <<l>>
RECURSIVE LStrip(_)
LStrip(fs) ==
    LET f == StripField(fs[1])
    IN  IF f = "" /\ Len(fs) > 1 THEN LStrip(Tail(fs))
        ELSE <<f>> \o Tail(fs)
Strip(fs) == LStrip(RStrip(fs))

\* PdnsChatter.readline
readline(line) ==
    IF Len(line) = 0 THEN [exc |-> "IOError", line |-> <<>>]
    ELSE [exc |-> "none", line |-> Strip(line)]

\* a flush that drops the messages
FlushLogBuffer_none(lb) == <<>>

\* FlushLogBuffer: the lines it writes
FlushLogBuffer(lb) == [i \in 1..Len(lb) |-> <<"LOG", lb[i]>>]

\* the prefix tests of SetLocalIp
IsPrivate(value) ==
    value \in {"0.0.0.0", "127.0.0.1", "127.0.1.1", "192.168.0.1", "10.0.0.1"}
SetLocalIp(lip, value) == IF ~IsPrivate(value) THEN value ELSE lip

\* what the sockets of SlowGetOwnIp and of Lookup may answer: None when the
\* call raises
HostAddrs == {None, "127.0.1.1", "5.6.7.8"}

\* what urllib.urlopen(url) gives: the text of the page, or an exception
Pages == {[exc |-> FALSE, tdata |-> <<"o", "k", "!">>],
          [exc |-> FALSE, tdata |-> <<"n", "o">>],
          [exc |-> TRUE, tdata |-> <<>>]}
\* a result without keys: result.get('time', 0), result.get('ok', False).
\* A result with keys has the time of a probe, which is never 0.
EmptyResult == [time |-> 0, ok |-> FALSE]

\* tdata.startswith(want), both as sequences of characters
StartsWith(tdata, want) ==
    /\ Len(tdata) >= Len(want)
    /\ SubSeq(tdata, 1, Len(want)) = want

\* a self-test that also probes when the result is exactly
\* MAGIC_TEST_VALIDITY seconds old
MagicTest_le(tests, want, url, now, clock, page) ==
    LET now1   == IF now # 0 THEN now ELSE clock
        result == IF url \in DOMAIN tests THEN tests[url] ELSE EmptyResult
        probe  == result.time <= now1 - MAGIC_TEST_VALIDITY
        result2 == IF probe
                   THEN [time |-> now1,
                         ok |-> ~page.exc /\ StartsWith(page.tdata, want)]
                   ELSE result
    IN  [magic_tests |-> [u \in DOMAIN tests \cup {url} |->
                            IF u = url THEN result2 ELSE tests[u]],
         probed |-> probe,
         exc |-> IF result2.ok THEN "none" ELSE "ValueError"]

\* MagicTest(want, url, now): the cache after the call, whether the url was
\* fetched, and the exception raised.  now is the argument (0 when it is
\* left out or falsy), clock the value of time.time(), page what
\* urllib.urlopen(url) gives: its text, or an exception.
MagicTest(tests, want, url, now, clock, page) ==
    LET now1   == IF now # 0 THEN now ELSE clock
        result == IF url \in DOMAIN tests THEN tests[url] ELSE EmptyResult
        probe  == result.time < now1 - MAGIC_TEST_VALIDITY
        result2 == IF probe
                   THEN [time |-> now1,
                         ok |-> ~page.exc /\ StartsWith(page.tdata, want)]
                   ELSE result
    IN  [magic_tests |-> [u \in DOMAIN tests \cup {url} |->
                            IF u = url THEN result2 ELSE tests[u]],
         probed |-> probe,
         exc |-> IF result2.ok THEN "none" ELSE "ValueError"]

\* record[3].startswith(MAGIC_SELF_IP) and ':' in record[3]
StartsWithSelf(rdata) == rdata \in {MAGIC_SELF_IP, "self:ok:url"}
HasColon(rdata) == rdata \in {"self:ok:url"}

\* magic, test_want, test_url = record[3].split(':', 2)
SelfTestOf(rdata) ==
    IF rdata = "self:ok:url" THEN <<MAGIC_SELF_IP, <<"o", "k">>, "url">>
    ELSE <<rdata>>

\* a split that leaves the data in one piece
SrvSplit_whole(rdata) == <<rdata>>

\* SRV_SPLIT.split(record[3], 1)
SrvSplit(rdata) == IF rdata = "10 mx1" THEN <<"10", "mx1">> ELSE <<rdata>>

\* SendRecord: the line written, or the exception raised.  The name want is
\* bound nowhere, so the call of MagicTest raises NameError.
SendRecord(record, lip) ==
    IF StartsWithSelf(record[4])
    THEN IF HasColon(record[4])
         THEN [exc |-> "NameError", out |-> <<>>]
         ELSE IF ~Truthy(lip)
              THEN [exc |-> "ValueError", out |-> <<>>]
              ELSE [exc |-> "none",
                    out |-> << <<"DATA", record[1], "IN", record[2], record[3],
                                 "-1", lip>> >>]
    ELSE [exc |-> "none",
          out |-> << <<"DATA", record[1], "IN", record[2], record[3],
                       "-1", record[4]>> >>]

SendMxOrSrv(d1, d2, d3, d4) == << <<"DATA", d1, "IN", d2, d3, "-1">> \o d4 >>

\* a loop that sends the query counter like any other record
RECURSIVE SendRecords_all(_, _)
SendRecords_all(records, lip) ==
    IF records = <<>> THEN [exc |-> "none", out |-> <<>>]
    ELSE LET record == Head(records)
             one == IF record[2] \in {"MX", "SRV"}
                    THEN [exc |-> "none",
                          out |-> SendMxOrSrv(record[1], record[2], record[3],
                                              SrvSplit(record[4]))]
                    ELSE SendRecord(record, lip)
             rest == SendRecords_all(Tail(records), lip)
         IN  IF one.exc # "none" THEN one
             ELSE [exc |-> rest.exc, out |-> one.out \o rest.out]

\* the loop of Lookup over the records: the lines written until the end or
\* until a record raises
RECURSIVE SendRecords(_, _)
SendRecords(records, lip) ==
    IF records = <<>> THEN [exc |-> "none", out |-> <<>>]
    ELSE LET record == Head(records)
             one == IF record[2] \in {"MX", "SRV"}
                    THEN [exc |-> "none",
                          out |-> SendMxOrSrv(record[1], record[2], record[3],
                                              SrvSplit(record[4]))]
                    ELSE IF record[2] # "TXT" \/ record[4] # "QC"
                         THEN SendRecord(record, lip)
                         ELSE [exc |-> "none", out |-> <<>>]
             rest == SendRecords(Tail(records), lip)
         IN  IF one.exc # "none" THEN one
             ELSE [exc |-> rest.exc, out |-> one.out \o rest.out]

\* a Lookup that ends the answer to another type than Q like any other
Lookup_end(be, lip, lb, wild, query, host) ==
    LET lip1 == IF ~Truthy(lip) THEN SetLocalIp(lip, query[7]) ELSE lip
        lip2 == IF ~Truthy(lip) /\ ~Truthy(lip1) /\ host # None
                THEN SetLocalIp(lip1, host) ELSE lip1
        qs   == IF query[2] = <<>> THEN {[rv |-> <<>>, be |-> be]}
                ELSE IF query[4] = "ANY"
                     THEN Query(be, QueryOpInit(query[2], None, None), <<>>, wild)
                     ELSE Query(be, QueryOpInit(query[2], query[4], None), <<>>, wild)
    IN  IF query[1] = "Q"
        THEN {LET sent == SendRecords(q.rv, lip2)
              IN  [exc |-> sent.exc, records |-> q.rv, be |-> q.be,
                   local_ip |-> lip2,
                   out |-> IF sent.exc = "none"
                           THEN sent.out \o FlushLogBuffer(lb) \o << <<"END">> >>
                           ELSE sent.out,
                   log_buffer |-> IF sent.exc = "none" THEN <<>> ELSE lb] : q \in qs}
        ELSE {[exc |-> "none", records |-> <<>>, be |-> be, local_ip |-> lip2,
               out |-> FlushLogBuffer(lb \o <<"we only do Q">>) \o << <<"END">> >>,
               log_buffer |-> <<>>]}

\* Lookup: the set of outcomes, one per order of the records.  host is the
\* answer of socket.getaddrinfo.
Lookup(be, lip, lb, wild, query, host) ==
    LET lip1 == IF ~Truthy(lip) THEN SetLocalIp(lip, query[7]) ELSE lip
        lip2 == IF ~Truthy(lip) /\ ~Truthy(lip1) /\ host # None
                THEN SetLocalIp(lip1, host) ELSE lip1
        qs   == IF query[2] = <<>> THEN {[rv |-> <<>>, be |-> be]}
                ELSE IF query[4] = "ANY"
                     THEN Query(be, QueryOpInit(query[2], None, None), <<>>, wild)
                     ELSE Query(be, QueryOpInit(query[2], query[4], None), <<>>, wild)
    IN  IF query[1] = "Q"
        THEN {LET sent == SendRecords(q.rv, lip2)
              IN  [exc |-> sent.exc, records |-> q.rv, be |-> q.be,
                   local_ip |-> lip2,
                   out |-> IF sent.exc = "none"
                           THEN sent.out \o FlushLogBuffer(lb) \o << <<"END">> >>
                           ELSE sent.out,
                   log_buffer |-> IF sent.exc = "none" THEN <<>> ELSE lb] : q \in qs}
        ELSE {[exc |-> "none", records |-> <<>>, be |-> be, local_ip |-> lip2,
               out |-> FlushLogBuffer(lb \o <<"we only do Q">>) \o << <<"FAIL">> >>,
               log_buffer |-> <<>>]}

\* a loop without the except clause
RunLine_noexcept(be, lip, lb, wild, query, host) ==
    IF Len(query) = 7
    THEN Lookup(be, lip, lb, wild, query, host)
    ELSE {[exc |-> "none", records |-> <<>>, be |-> be, local_ip |-> lip,
           out |-> FlushLogBuffer(lb) \o << <<"LOG", "bad request">>, <<"FAIL">> >>,
           log_buffer |-> <<>>]}

\* one turn of the loop of Run on a line that was read: the set of outcomes
RunLine(be, lip, lb, wild, query, host) ==
    IF Len(query) = 7
    THEN {IF o.exc = "none" THEN o
          ELSE [o EXCEPT !.out = o.out \o FlushLogBuffer(o.log_buffer)
                                   \o << <<"LOG", "Internal Error">>, <<"FAIL">> >>,
                         !.log_buffer = <<>>] :
            o \in Lookup(be, lip, lb, wild, query, host)}
    ELSE {[exc |-> "none", records |-> <<>>, be |-> be, local_ip |-> lip,
           out |-> FlushLogBuffer(lb) \o << <<"LOG", "bad request">>, <<"FAIL">> >>,
           log_buffer |-> <<>>]}

-----------------------------------------------------------------------------
(* PdnsChatter.Run as a state machine *)

HELO == <<"HELO", "2">>

\* first lines: the token, the token followed by a blank, another version,
\* an empty line, the end of the input
HeloLines == {HELO, <<"HELO", "2 ">>, <<"HELO", "3">>, <<"">>, <<>>}
\* the line read after a failed handshake: some line, or the end of the input
SecondLines == {HELO, <<>>}

RequestLines ==
    {<<"Q", domain, "IN", rtype, "-1", "1.2.3.4", lip>> :
        domain \in {<<"foo", "bar", "com">>, <<"FOO", "bar", "com">>, <<>>},
        rtype \in {"A", "MX", "TXT", "ANY"},
        lip \in {"5.6.7.8", "127.0.0.1"}}
    \cup {<<"AXFR", <<"foo", "bar", "com">>, "IN", "A", "-1", "1.2.3.4", lip>> :
            lip \in {"5.6.7.8", "127.0.0.1"}}
    \cup {<<"Q", <<"foo", "bar", "com">>, "IN", "A", "-1", "1.2.3.4", "">>,
          <<"Q", "x">>, <<"">>, <<>>}

\* the tasks an administrator has run before the conversation starts
ValidAdds ==
    {a \in {AddOpInit(d, r[1], r[2], t) :
               d \in DomainInputs, r \in AddInputs, t \in TtlInputs} :
        a.exc = "none"}
RECURSIVE StoresUpTo(_)
StoresUpTo(n) ==
    IF n = 0 THEN {<<>>}
    ELSE LET S == StoresUpTo(n - 1)
         IN  S \cup {AddRun(be, a) : be \in S, a \in ValidAdds}

InitChat ==
    /\ data \in StoresUpTo(MaxFields)
    /\ last = Idle
    /\ pc = "AwaitingHandshake"
    /\ local_ip = None
    /\ log_buffer = <<>>
    /\ wildcards \in BOOLEAN
    /\ magic_tests = NoTests

\* a handshake that leaves out the second readline
HandshakeRun_noread(raw1, raw2, lip, host) ==
    LET line1 == readline(raw1)
    IN  IF line1.exc # "none"
        THEN [pc |-> "Closed", out |-> <<>>, nread |-> 0, exc |-> line1.exc,
              exit |-> 1, local_ip |-> lip]
        ELSE IF line1.line # HELO
        THEN [pc |-> "Failed", out |-> << <<"FAIL">> >>, nread |-> 1,
              exc |-> "SystemExit", exit |-> 1, local_ip |-> lip]
        ELSE [pc |-> "Ready", out |-> << <<"OK", BANNER>> >>, nread |-> 1,
              exc |-> "none", exit |-> 0,
              local_ip |-> IF ~Truthy(lip) /\ host # None
                           THEN SetLocalIp(lip, host) ELSE lip]

\* Run up to the loop: the handshake and SlowGetOwnIp.  raw1 and raw2 are the
\* next two lines of the input, host the address SlowGetOwnIp finds.
HandshakeRun(raw1, raw2, lip, host) ==
    LET line1 == readline(raw1)
        line2 == readline(raw2)
    IN  IF line1.exc # "none"
        THEN [pc |-> "Closed", out |-> <<>>, nread |-> 0, exc |-> line1.exc,
              exit |-> 1, local_ip |-> lip]
        ELSE IF line1.line # HELO
        THEN IF line2.exc # "none"
             THEN [pc |-> "Closed", out |-> << <<"FAIL">> >>, nread |-> 1,
                   exc |-> line2.exc, exit |-> 1, local_ip |-> lip]
             ELSE [pc |-> "Failed", out |-> << <<"FAIL">> >>, nread |-> 2,
                   exc |-> "SystemExit", exit |-> 1, local_ip |-> lip]
        ELSE [pc |-> "Ready", out |-> << <<"OK", BANNER>> >>, nread |-> 1,
              exc |-> "none", exit |-> 0,
              local_ip |-> IF ~Truthy(lip) /\ host # None
                           THEN SetLocalIp(lip, host) ELSE lip]

Handshake ==
    /\ pc = "AwaitingHandshake"
    /\ last = Idle
    /\ \E raw1 \in HeloLines, raw2 \in SecondLines, host \in HostAddrs :
        LET h == HandshakeRun(raw1, raw2, local_ip, host)
        IN  /\ pc' = h.pc
            /\ local_ip' = h.local_ip
            /\ last' = [op |-> "helo", raw |-> raw1, raw2 |-> raw2, out |-> h.out,
                        nread |-> h.nread, exc |-> h.exc, exit |-> h.exit]
    /\ UNCHANGED <<data, log_buffer, wildcards, magic_tests>>

\* what the url of a self-test serves while a request is answered
ChatPages == {[exc |-> FALSE, tdata |-> <<"o", "k", "!">>],
              [exc |-> TRUE, tdata |-> <<>>]}

\* one turn of the loop of Run: a line is read and answered
Request ==
    /\ pc = "Ready"
    /\ last = Idle
    /\ \E raw \in RequestLines, host \in HostAddrs, page \in ChatPages :
        LET line == readline(raw)
        IN  IF line.exc # "none"
            THEN /\ pc' = "Closed"
                 /\ last' = [op |-> "request", raw |-> raw, query |-> <<>>,
                             records |-> <<>>, out |-> <<>>, exc |-> line.exc,
                             before |-> data, lip |-> local_ip, page |-> page]
                 /\ UNCHANGED <<data, local_ip, log_buffer>>
            ELSE \E o \in RunLine(data, local_ip, log_buffer, wildcards,
                                  line.line, host) :
                    /\ Capped(data, o.be)
                    /\ pc' = "Ready"
                    /\ data' = o.be
                    /\ local_ip' = o.local_ip
                    /\ log_buffer' = o.log_buffer
                    /\ last' = [op |-> "request", raw |-> raw, query |-> line.line,
                                records |-> o.records, out |-> o.out, exc |-> o.exc,
                                before |-> data, lip |-> local_ip, page |-> page]
    /\ UNCHANGED <<wildcards, magic_tests>>

\* the loop of Run comes back to readline
ReadNext ==
    /\ pc = "Ready"
    /\ last.op \in {"helo", "request"}
    /\ last' = Idle
    /\ UNCHANGED <<data, pc, local_ip, log_buffer, wildcards, magic_tests>>

NextChat == Handshake \/ Request \/ ReadNext

SpecChat == InitChat /\ [][NextChat]_vars

-----------------------------------------------------------------------------
(* The TTL decoding of AddOp on every short argument *)

TtlChars == {"0", "1", "2", "5", "M", "H", "D", "W", "m", "h", "d", "w",
             "-", "x", "."}
TtlSpecs == UNION {[1..n -> TtlChars] : n \in 0..MaxTtlLen}

InitTtl ==
    /\ data = <<>>
    /\ last \in {[op |-> "args", ttl |-> t] : t \in TtlSpecs}
    /\ pc = "NoChatter"
    /\ local_ip = None
    /\ log_buffer = <<>>
    /\ wildcards = FALSE
    /\ magic_tests = NoTests

\* ParseArgs on -a: the AddOp is built
AddOpNew ==
    /\ last.op = "args"
    /\ last' = [op |-> "AddOp", ttl |-> last.ttl,
                self |-> AddOpInit(<<"foo", "bar", "com">>, "A", "1.2.3.4", last.ttl)]
    /\ UNCHANGED <<data, pc, local_ip, log_buffer, wildcards, magic_tests>>

\* RunTasks: the AddOp that was built is run
AddOpRun ==
    /\ last.op = "AddOp"
    /\ last.self.exc = "none"
    /\ data' = AddRun(data, last.self)
    /\ last' = [op |-> "added", ttl |-> last.ttl, self |-> last.self]
    /\ UNCHANGED <<pc, local_ip, log_buffer, wildcards, magic_tests>>

NextTtl == AddOpNew \/ AddOpRun

SpecTtl == InitTtl /\ [][NextTtl]_vars


-----------------------------------------------------------------------------
(* MagicTest called on its own, with the time given by the caller *)

Urls == {"url", "url2"}
Wants == {<<"o", "k">>, <<"n">>}
\* the argument now; 0 stands for an argument left out
NowInputs == {0, 30, 61, 121, 122}
\* time.time()
Clocks == {1000}

InitMagic ==
    /\ data = <<>>
    /\ last = Idle
    /\ pc = "MagicTest"
    /\ local_ip = None
    /\ log_buffer = <<>>
    /\ wildcards = FALSE
    /\ magic_tests = NoTests

MagicTestCall ==
    /\ pc = "MagicTest"
    /\ last = Idle
    /\ \E want \in Wants, url \in Urls, now \in NowInputs, clock \in Clocks,
          page \in Pages :
        LET m == MagicTest(magic_tests, want, url, now, clock, page)
        IN  /\ magic_tests' = m.magic_tests
            /\ last' = [op |-> "MagicTest", want |-> want, url |-> url,
                        now |-> IF now # 0 THEN now ELSE clock,
                        page |-> page, probed |-> m.probed, exc |-> m.exc,
                        before |-> magic_tests]
    /\ UNCHANGED <<data, pc, local_ip, log_buffer, wildcards>>

MagicTestDone ==
    /\ pc = "MagicTest"
    /\ last.op = "MagicTest"
    /\ last' = Idle
    /\ UNCHANGED <<data, pc, local_ip, log_buffer, wildcards, magic_tests>>

NextMagic == MagicTestCall \/ MagicTestDone

SpecMagic == InitMagic /\ [][NextMagic]_vars

-----------------------------------------------------------------------------
(* Reference definitions used to state the properties *)

KeyOf(domain) == <<REDIS_PREFIX>> \o domain
FOO_KEY  == KeyOf(<<"foo", "bar", "com">>)
WILD_KEY == KeyOf(<<"*", "bar", "com">>)

\* the value of the query counter of a key, 0 when it has none
Counter(be, key) == IF hexists(be, key, QC_FIELD) THEN be[key][QC_FIELD] ELSE 0

\* the fields of a key that a filter selects
Matching(be, key, record, rdata) ==
    {f \in DOMAIN hgetall(be, key) :
        /\ Truthy(record) => f[1] = record
        /\ Truthy(rdata) => f[2] = rdata}

\* the seconds a TTL argument stands for: [ok, val]
SuffixSeconds(c) == CASE c \in {"M", "m"} -> 60
                      [] c \in {"H", "h"} -> 3600
                      [] c \in {"D", "d"} -> 86400
                      [] c \in {"W", "w"} -> 604800
                      [] OTHER -> 1
Seconds(ttl) ==
    LET n == Len(ttl)
        suffixed == n > 0 /\ ttl[n] \in {"M", "m", "H", "h", "D", "d", "W", "w"}
        num == IF suffixed THEN Int_(SubSeq(ttl, 1, n - 1)) ELSE Int_(ttl)
    IN  [ok |-> num.ok,
         val |-> IF suffixed THEN num.val * SuffixSeconds(ttl[n]) ELSE num.val]

AddedOk == last.op = "add" /\ last.self.exc = "none"
AddedKey == KeyOf(last.self.domain)
AddedField == <<last.self.record, last.self.data>>

-----------------------------------------------------------------------------
(* Properties of the tasks, specification Spec *)

\* C1: right after add(domain, type, data, ttlSpec) has run, from whatever
\* store, query(domain, type, data), with or without wildcard fallback,
\* returns exactly one tuple (domain, type, ttl, data) and its ttl is the
\* number of seconds ttlSpec stands for.
C1_AddThenQuery ==
    AddedOk =>
        \A wild \in BOOLEAN :
            \A q \in Query(data, QueryOpInit(last.domain, last.record, last.data),
                           <<>>, wild) :
                q.rv = << <<Lower(last.domain), Upper(last.record),
                            Seconds(last.ttl).val, last.data>> >>

C1_Witness ==
    /\ AddedOk
    /\ last.ttl = <<"1", "M">>
    /\ hexists(last.before, AddedKey, AddedField)
    /\ last.before[AddedKey][AddedField] = 1

\* C5: a query of foo.bar.com with wildcard fallback, when no field of the
\* key of foo.bar.com matches the filters and fields of *.bar.com do, returns
\* exactly the matching fields of *.bar.com, each with its stored ttl and
\* with the domain foo.bar.com.
C5_WildcardFallback ==
    (/\ last.op = "query"
     /\ last.wild
     /\ last.self.domain = <<"foo", "bar", "com">>
     /\ Matching(last.before, FOO_KEY, last.self.record, last.self.data) = {}
     /\ Matching(last.before, WILD_KEY, last.self.record, last.self.data) # {})
    => LET M == Matching(last.before, WILD_KEY, last.self.record, last.self.data)
       IN  /\ Len(last.rv) = Cardinality(M)
           /\ {last.rv[i] : i \in 1..Len(last.rv)} =
                 {<<<<"foo", "bar", "com">>, f[1], last.before[WILD_KEY][f], f[2]>> :
                     f \in M}

C5_Witness ==
    /\ last.op = "query"
    /\ last.wild
    /\ last.domain = <<"FOO", "bar", "com">>
    /\ FOO_KEY \in DOMAIN last.before
    /\ Matching(last.before, FOO_KEY, last.self.record, last.self.data) = {}
    /\ Len(last.rv) = 2

\* C6: a query that returns a non-empty result raises the query counter of
\* exactly one key, by exactly 1, and leaves the counter of every other key
\* as it was, whatever the number of records and the filters.
C6_CounterPlusOne ==
    (last.op = "query" /\ last.rv # <<>>) =>
        \E k \in DOMAIN data :
            /\ Counter(data, k) = Counter(last.before, k) + 1
            /\ \A k2 \in (DOMAIN data \cup DOMAIN last.before) \ {k} :
                  Counter(data, k2) = Counter(last.before, k2)

C6_Witness ==
    /\ last.op = "query"
    /\ Len(last.rv) = 2
    /\ \E k \in DOMAIN last.before : Counter(last.before, k) = 1 /\ Counter(data, k) = 2

\* C7: after delete(domain) without filters the key of the domain has no
\* field left, the query counter included, and a query of the domain without
\* filters and without wildcard fallback returns nothing.
C7_WholeDomainDelete ==
    (last.op = "delete" /\ ~Truthy(last.self.record) /\ ~Truthy(last.self.data)) =>
        /\ DOMAIN hgetall(data, KeyOf(last.self.domain)) = {}
        /\ \A q \in Query(data, QueryOpInit(last.domain, None, None), <<>>, FALSE) :
              q.rv = <<>>

C7_Witness ==
    /\ last.op = "delete"
    /\ ~Truthy(last.self.record) /\ ~Truthy(last.self.data)
    /\ Counter(last.before, KeyOf(last.self.domain)) > 0
    /\ Cardinality(DOMAIN hgetall(last.before, KeyOf(last.self.domain))) >= 2

\* C8: an add of a (domain, type, data) that is already stored with another
\* ttl leaves the key with the same fields as before, and the field (type,
\* data) holds the ttl of this later add.
C8_AddOverwrites ==
    (/\ AddedOk
     /\ hexists(last.before, AddedKey, AddedField)
     /\ last.before[AddedKey][AddedField] # Seconds(last.ttl).val)
    => /\ DOMAIN data[AddedKey] = DOMAIN last.before[AddedKey]
       /\ Cardinality(DOMAIN data[AddedKey]) = Cardinality(DOMAIN last.before[AddedKey])
       /\ data[AddedKey][AddedField] = Seconds(last.ttl).val

C8_Witness ==
    /\ AddedOk
    /\ hexists(last.before, AddedKey, AddedField)
    /\ last.before[AddedKey][AddedField] = 60
    /\ last.ttl = <<"1">>
    /\ Cardinality(DOMAIN last.before[AddedKey]) = 2

\* C9: an add with a record type outside the allow-list, with empty or
\* absent data, or with a malformed TTL raises an error and leaves the store
\* as it was.
C9_RejectedAdd ==
    (/\ last.op = "add"
     /\ \/ last.record = None
        \/ Upper(last.record) \notin VALID_RECORDS
        \/ last.data \in {"", None}
        \/ ~Seconds(last.ttl).ok)
    => /\ last.self.exc \in {"ArgumentError", "ValueError"}
       /\ data = last.before

C9_Witness ==
    /\ last.op = "add"
    /\ last.record = "A"
    /\ last.data = ""
    /\ last.ttl = <<"1", "M">>
    /\ last.before # <<>>

-----------------------------------------------------------------------------
(* Properties of the TTL decoding, specification SpecTtl *)

\* C10: an AddOp built with a TTL argument that ends in M, H, D or W, in
\* either case, holds the integer in front of the suffix times 60, 3600,
\* 86400 or 604800; built with any other argument it holds the argument read
\* as an integer; where that number is no integer the constructor raises the
\* error of int().  5M is 300, 1H is 3600, 1D is 86400, 1W is 604800, 120 is
\* 120.
C10_TtlDecoding ==
    last.op = "AddOp" =>
        /\ IF Seconds(last.ttl).ok
           THEN last.self.exc = "none" /\ last.self.ttl = Seconds(last.ttl).val
           ELSE last.self.exc = "ValueError"
        /\ last.ttl = <<"5", "M">> => last.self.ttl = 300
        /\ last.ttl = <<"1", "H">> => last.self.ttl = 3600
        /\ last.ttl = <<"1", "D">> => last.self.ttl = 86400
        /\ last.ttl = <<"1", "W">> => last.self.ttl = 604800
        /\ last.ttl = <<"1", "2", "0">> => last.self.ttl = 120
        /\ last.ttl \in {<<"1", ".", "5">>, <<"x">>, <<"M">>, <<>>}
              => last.self.exc = "ValueError"

C10_Witness ==
    /\ last.op = "added"
    /\ last.ttl = <<"2", "5", "w">>
    /\ hget(data, FOO_KEY, <<"A", "1.2.3.4">>) = 25 * 604800

-----------------------------------------------------------------------------
(* Properties of the conversation, specification SpecChat *)

\* the line read was split into 7 fields and asks Q for a domain
WellFormedQ ==
    /\ last.op = "request"
    /\ Len(last.query) = 7
    /\ last.query[1] = "Q"
    /\ last.query[2] # <<>>
AskedKey == KeyOf(Lower(last.query[2]))
\* the fields of the asked record type stored under the key of the domain
AskedFields == Matching(last.before, AskedKey, Upper(last.query[4]), None)

\* C2 as it is stated: a well-formed Q request for a domain and a record
\* type with stored records is answered by one line DATA, domain, IN, type,
\* stored ttl, -1, data for every matching record and then one END.
C2_Original ==
    (WellFormedQ /\ AskedFields # {}) =>
        /\ Len(last.out) = Cardinality(AskedFields) + 1
        /\ last.out[Len(last.out)] = <<"END">>
        /\ {last.out[i] : i \in 1..(Len(last.out) - 1)} =
              {<<"DATA", Lower(last.query[2]), "IN", f[1],
                 last.before[AskedKey][f], "-1", f[2]>> : f \in AskedFields}

\* the fields of a DATA line that carry the data of a stored field
C2_DataOf(f) == IF f = <<"MX", "10 mx1">> THEN <<"10", "mx1">> ELSE <<f[2]>>

\* C2, amended: when no matching record has data that begins with the self
\* marker, the request is answered by one DATA line for every matching record
\* but the query counter (TXT, QC), with the domain in lower case, the stored
\* ttl and the data, which for an MX record is split into priority and
\* target, and then one END.
C2_DataThenEnd ==
    (WellFormedQ /\ AskedFields # {}
       /\ \A f \in AskedFields : ~(f[2] \in {"self", "self:ok:url"})) =>
        LET M == AskedFields \ {QC_FIELD}
        IN  /\ Len(last.out) = Cardinality(M) + 1
            /\ last.out[Len(last.out)] = <<"END">>
            /\ {last.out[i] : i \in 1..(Len(last.out) - 1)} =
                  {<<"DATA", Lower(last.query[2]), "IN", f[1],
                     last.before[AskedKey][f], "-1">> \o C2_DataOf(f) : f \in M}

C2_Witness ==
    /\ WellFormedQ
    /\ last.query[2] = <<"FOO", "bar", "com">>
    /\ last.query[4] = "MX"
    /\ last.out = << <<"DATA", <<"foo", "bar", "com">>, "IN", "MX", 60, "-1",
                       "10", "mx1">>, <<"END">> >>

\* C3: a line that was read and does not split into 7 fields, or whose
\* processing raises, is answered by the DATA lines written until then, one
\* LOG line and FAIL; the log buffer is empty and the machine is Ready for
\* the next line.  Only the end of the input ends the loop.
C3_RequestError ==
    /\ (/\ last.op = "request"
        /\ last.exc # "IOError"
        /\ (Len(last.query) # 7 \/ last.exc # "none"))
       => /\ Len(last.out) >= 2
          /\ last.out[Len(last.out)] = <<"FAIL">>
          /\ last.out[Len(last.out) - 1][1] = "LOG"
          /\ \A i \in 1..(Len(last.out) - 2) : last.out[i][1] = "DATA"
          /\ Len(last.query) # 7 => Len(last.out) = 2
          /\ log_buffer = <<>>
          /\ pc = "Ready"
    /\ (last.op = "request" /\ pc # "Ready")
       => (pc = "Closed" /\ last.exc = "IOError" /\ last.raw = <<>>)

C3_Witness ==
    /\ last.op = "request"
    /\ last.exc = "ValueError"
    /\ Len(last.out) = 3
    /\ last.out[1][1] = "DATA"
    /\ pc = "Ready"

\* C4 as it is stated: a first line other than the token HELO, tab, 2 is
\* answered by FAIL, one more line is read, and the machine ends Failed with
\* a non-zero exit.
C4_Original ==
    (last.op = "helo" /\ last.raw # <<>> /\ last.raw # HELO) =>
        /\ last.out = << <<"FAIL">> >>
        /\ last.nread = 2
        /\ pc = "Failed"
        /\ last.exit # 0

\* C4, amended: a first line that without the blanks at its ends is not the
\* token is answered by FAIL alone; when a further line follows, that one
\* line is read and the machine ends Failed on exit(1); when the input ends
\* there, the read raises and the process ends with a non-zero exit as well.
\* OK is not written and no request is processed.
C4_HandshakeMismatch ==
    /\ (last.op = "helo" /\ last.raw # <<>> /\ last.raw \notin {HELO, <<"HELO", "2 ">>})
       => /\ last.out = << <<"FAIL">> >>
          /\ last.exit # 0
          /\ IF last.raw2 # <<>>
             THEN pc = "Failed" /\ last.nread = 2 /\ last.exc = "SystemExit"
             ELSE pc = "Closed" /\ last.nread = 1 /\ last.exc = "IOError"
    /\ pc = "Failed" => (last.op = "helo" /\ last.out = << <<"FAIL">> >>)

C4_Witness ==
    /\ last.op = "helo"
    /\ last.raw = <<"HELO", "3">>
    /\ last.raw2 = HELO
    /\ pc = "Failed"
    /\ last.nread = 2

\* C11: no DATA line is ever written for the query counter (TXT, QC): not
\* on an ANY request, not on a TXT request, not on a wildcard match, and
\* not once earlier queries have created the counter.
C11_NoCounterLine ==
    last.op = "request" =>
        \A i \in 1..Len(last.out) :
            last.out[i][1] = "DATA" =>
                ~(last.out[i][4] = "TXT" /\ last.out[i][7] = "QC")

\* a request whose records hold the counter, made by an earlier query, and
\* which is answered up to END
C11_Witness ==
    /\ WellFormedQ
    /\ last.query[4] \in {"ANY", "TXT"}
    /\ \E i \in 1..Len(last.records) :
          /\ last.records[i][2] = "TXT"
          /\ last.records[i][4] = "QC"
    /\ Len(last.out) = Len(last.records)
    /\ Len(last.out) >= 2
    /\ last.out[Len(last.out)] = <<"END">>

\* a request of type Q that was read and split into its 7 fields
AnsweredQ ==
    /\ last.op = "request"
    /\ last.exc # "IOError"
    /\ Len(last.query) = 7
    /\ last.query[1] = "Q"
\* the DATA line of a record whose data is replaced by the local IP
SelfLine(r) == <<"DATA", r[1], "IN", r[2], r[3], "-1", local_ip>>
\* the places of the output at which a line stands
PlacesOf(line) == {j \in 1..Len(last.out) : last.out[j] = line}
EndsInLogFail ==
    /\ Len(last.out) >= 2
    /\ last.out[Len(last.out)] = <<"FAIL">>
    /\ last.out[Len(last.out) - 1][1] = "LOG"

\* C12: for a returned record, not MX or SRV, whose data is the bare self
\* marker: when the local IP is known, one DATA line is written with the
\* local IP as its data; when it is unknown, no DATA line is written for
\* the record and the request ends with LOG and FAIL instead of END.
C12_SelfRecord ==
    AnsweredQ =>
        \A i \in 1..Len(last.records) :
            LET r == last.records[i]
            IN  (r[2] \notin {"MX", "SRV"} /\ r[4] = MAGIC_SELF_IP) =>
                    IF Truthy(local_ip)
                    THEN Cardinality(PlacesOf(SelfLine(r))) = 1
                    ELSE /\ \A j \in 1..Len(last.out) :
                              last.out[j][1] = "DATA" =>
                                  ~(/\ last.out[j][4] = r[2]
                                    /\ last.out[j][7] \in {r[4], local_ip})
                         /\ EndsInLogFail

\* the page served begins with the text the record of the self-test expects
ProbeSucceeds(r) ==
    /\ ~last.page.exc
    /\ StartsWith(last.page.tdata, SelfTestOf(r[4])[2])

\* C13: a returned record whose data is the self marker with a self-test
\* (marker:expected-prefix:url) is, when the probe succeeds and the local
\* IP is known, written as a DATA line with the local IP, and the request
\* ends with END.
C13_SelfTestRecord ==
    AnsweredQ =>
        \A i \in 1..Len(last.records) :
            LET r == last.records[i]
            IN  (/\ r[2] \notin {"MX", "SRV"}
                 /\ StartsWithSelf(r[4]) /\ HasColon(r[4])
                 /\ ProbeSucceeds(r)
                 /\ Truthy(local_ip)) =>
                    /\ PlacesOf(SelfLine(r)) # {}
                    /\ last.out[Len(last.out)] = <<"END">>

-----------------------------------------------------------------------------
(* DeleteOp with filters, and the life of the query counter *)

DeletedKey == KeyOf(last.self.domain)
\* the fields of a key that a store holds and a later store does not
Removed(be, be2, key) == DOMAIN hgetall(be, key) \ DOMAIN hgetall(be2, key)
\* all keys but one are the same in both stores
SameButKey(be, be2, key) ==
    /\ DOMAIN be2 \ {key} = DOMAIN be \ {key}
    /\ \A k \in DOMAIN be \ {key} : be2[k] = be[k]
\* the fields of a key that both stores hold have the same value
SameValues(be, be2, key, except) ==
    \A f \in (DOMAIN hgetall(be, key) \cap DOMAIN hgetall(be2, key)) \ except :
        be2[key][f] = be[key][f]

\* C14: delete(domain, type, data) with both filters removes the field
\* (type, data) of the key of the domain and nothing else, and reports 1
\* record deleted when the field existed and 0 when it did not.
C14_DeleteField ==
    (last.op = "delete" /\ Truthy(last.self.record) /\ Truthy(last.self.data)) =>
        LET f == <<last.self.record, last.self.data>>
        IN  /\ Removed(last.before, data, DeletedKey) =
                   DOMAIN hgetall(last.before, DeletedKey) \cap {f}
            /\ DOMAIN hgetall(data, DeletedKey) \subseteq
                   DOMAIN hgetall(last.before, DeletedKey)
            /\ SameValues(last.before, data, DeletedKey, {})
            /\ SameButKey(last.before, data, DeletedKey)
            /\ last.deleted = IF hexists(last.before, DeletedKey, f) THEN 1 ELSE 0

\* C15: delete with one filter, the type or the data, removes every field
\* of the key of the domain that the filter selected when the delete began,
\* removes nothing else there, touches no other key, so no field of a
\* wildcard key, and reports the number of fields it removed.
C15_FilteredDelete ==
    (last.op = "delete" /\ Truthy(last.self.record) # Truthy(last.self.data)) =>
        LET M == Matching(last.before, DeletedKey, last.self.record, last.self.data)
        IN  /\ Removed(last.before, data, DeletedKey) = M
            /\ last.deleted = Cardinality(Removed(last.before, data, DeletedKey))
            /\ SameValues(last.before, data, DeletedKey, {QC_FIELD})
            /\ SameButKey(last.before, data, DeletedKey)
            /\ last.msg = "Deleted records"

\* a delete by type that removed a field of the domain while the wildcard
\* key held a field of that type
C15_Witness ==
    /\ last.op = "delete"
    /\ Truthy(last.self.record) /\ ~Truthy(last.self.data)
    /\ DeletedKey = FOO_KEY
    /\ last.deleted >= 1
    /\ Matching(last.before, WILD_KEY, last.self.record, None) # {}
    /\ Matching(data, WILD_KEY, last.self.record, None) # {}

\* the keys whose counter the last task removed while the key stayed
LostCounter ==
    IF last.op \in {"add", "query", "delete"}
    THEN {k \in DOMAIN last.before \cap DOMAIN data :
            hexists(last.before, k, QC_FIELD) /\ ~hexists(data, k, QC_FIELD)}
    ELSE {}
\* the keys the last task removed together with their counter
LostKey ==
    IF last.op \in {"add", "query", "delete"}
    THEN {k \in DOMAIN last.before \ DOMAIN data :
            hexists(last.before, k, QC_FIELD)}
    ELSE {}

\* C16 as it is stated: a key that exists and had a query counter still has
\* it; the counter goes only with a delete of the whole domain, never with
\* a delete with filters.
C16_Original ==
    /\ LostCounter = {}
    /\ LostKey # {} =>
          (last.op = "delete" /\ ~Truthy(last.self.record) /\ ~Truthy(last.self.data))

\* C16, amended: no add and no query removes the counter of a key.  Only a
\* delete removes it, and only from the key of its domain: the delete of
\* the whole domain, which removes the key, or a delete whose filters
\* select the field (TXT, QC): type TXT, data QC, or both.
C16_CounterKept ==
    /\ LostCounter # {} =>
          /\ last.op = "delete"
          /\ LostCounter = {DeletedKey}
          /\ Truthy(last.self.record) \/ Truthy(last.self.data)
          /\ Truthy(last.self.record) => last.self.record = "TXT"
          /\ Truthy(last.self.data) => last.self.data = "QC"
    /\ LostKey # {} =>
          /\ last.op = "delete"
          /\ LostKey = {DeletedKey}
          /\ ~Truthy(last.self.record) /\ ~Truthy(last.self.data)

\* a delete by type TXT that took the counter and left another field
C16_Witness ==
    /\ last.op = "delete"
    /\ last.self.record = "TXT" /\ ~Truthy(last.self.data)
    /\ LostCounter = {DeletedKey}
    /\ DOMAIN hgetall(data, DeletedKey) # {}

\* C17 as it is stated: delete(domain) without filters reports success when
\* the key existed and reports that nothing was done when it did not.
C17_Original ==
    (last.op = "delete" /\ ~Truthy(last.self.record) /\ ~Truthy(last.self.data)) =>
        (last.msg = "Deleted all records" <=> DeletedKey \in DOMAIN last.before)

\* C17, amended: delete(domain) without filters reports "Deleted all
\* records for domain" whether or not the key existed; the key is gone
\* afterwards and every other key is as before.
C17_DeleteAllReport ==
    (last.op = "delete" /\ ~Truthy(last.self.record) /\ ~Truthy(last.self.data)) =>
        /\ last.msg = "Deleted all records"
        /\ DeletedKey \notin DOMAIN data
        /\ SameButKey(last.before, data, DeletedKey)

\* a delete of a domain that had no key, while another key was stored
C17_Witness ==
    /\ last.op = "delete"
    /\ ~Truthy(last.self.record) /\ ~Truthy(last.self.data)
    /\ DeletedKey \notin DOMAIN last.before
    /\ last.before # <<>>
    /\ data = last.before
    /\ last.msg = "Deleted all records"

-----------------------------------------------------------------------------
(* The log buffer *)

\* a request of another type than Q that was read and split into 7 fields
AnsweredNotQ ==
    /\ last.op = "request"
    /\ last.exc # "IOError"
    /\ Len(last.query) = 7
    /\ last.query[1] # "Q"

\* C18: the messages logged while a request is processed are written, each
\* as a LOG line of its own and in their order, right before the END or the
\* FAIL of that request, and the buffer is empty afterwards; the buffer is
\* empty whenever the machine waits for its next line.
C18_LogFlush ==
    /\ log_buffer = <<>>
    /\ AnsweredNotQ =>
          last.out = << <<"LOG", "we only do Q">>, <<"FAIL">> >>
    /\ last.op = "request" =>
          \A i \in 1..Len(last.out) :
              last.out[i][1] = "LOG" =>
                  /\ i < Len(last.out)
                  /\ \A j \in (i + 1)..Len(last.out) :
                        last.out[j][1] \in {"LOG", "END", "FAIL"}
                  /\ last.out[Len(last.out)][1] \in {"END", "FAIL"}

\* an AXFR request answered by its log message and FAIL
C18_Witness ==
    /\ AnsweredNotQ
    /\ Len(last.out) = 2
    /\ last.out[1] = <<"LOG", "we only do Q">>
    /\ last.out[2] = <<"FAIL">>
    /\ log_buffer = <<>>
    /\ pc = "Ready"

-----------------------------------------------------------------------------
(* The query without filters *)

QueriedKey == KeyOf(last.self.domain)
\* the tuple Query returns for a field of the queried key
TupleOf(f) == <<last.self.domain, f[1], last.before[QueriedKey][f], f[2]>>

\* C19: a query without filters returns every field stored under the key
\* of the domain, the query counter (TXT, QC) included once it exists; a key
\* that holds only its counter therefore gives a result that is not empty,
\* and the counter is incremented once more.
C19_NoFilterQuery ==
    (/\ last.op = "query"
     /\ ~Truthy(last.self.record) /\ ~Truthy(last.self.data)
     /\ DOMAIN hgetall(last.before, QueriedKey) # {}) =>
        LET F == DOMAIN last.before[QueriedKey]
        IN  /\ {last.rv[i] : i \in 1..Len(last.rv)} = {TupleOf(f) : f \in F}
            /\ Len(last.rv) = Cardinality(F)
            /\ last.rv # <<>>
            /\ Counter(data, QueriedKey) = Counter(last.before, QueriedKey) + 1

\* a query of a key that held nothing but its counter
C19_Witness ==
    /\ last.op = "query"
    /\ ~Truthy(last.self.record) /\ ~Truthy(last.self.data)
    /\ QueriedKey \in DOMAIN last.before
    /\ DOMAIN last.before[QueriedKey] = {QC_FIELD}
    /\ last.rv = << <<last.self.domain, "TXT", 1, "QC">> >>
    /\ data[QueriedKey][QC_FIELD] = 2

-----------------------------------------------------------------------------
(* The cache of the self-tests *)

\* the result the cache held for the url when MagicTest was called
CachedBefore ==
    IF last.url \in DOMAIN last.before THEN last.before[last.url] ELSE EmptyResult
\* a result of an earlier probe was cached for the url
HasResult == CachedBefore # EmptyResult

\* C20: the url of a self-test is probed only when no result is cached for
\* it or the cached result was checked more than MAGIC_TEST_VALIDITY
\* seconds before now; a self-test of the url within that time of the last
\* check takes the cached flag and probes nothing; the cached time changes
\* only when a probe is made, and results of other urls are not touched.
C20_SelfTestCache ==
    last.op = "MagicTest" =>
        /\ last.probed =>
              (~HasResult \/ last.now - CachedBefore.time > MAGIC_TEST_VALIDITY)
        /\ (HasResult /\ last.now - CachedBefore.time <= MAGIC_TEST_VALIDITY) =>
              /\ ~last.probed
              /\ magic_tests[last.url] = CachedBefore
              /\ (last.exc = "none") <=> CachedBefore.ok
        /\ magic_tests[last.url].time # CachedBefore.time => last.probed
        /\ last.probed => magic_tests[last.url].time = last.now
        /\ DOMAIN magic_tests = DOMAIN last.before \cup {last.url}
        /\ \A u \in DOMAIN last.before \ {last.url} :
              magic_tests[u] = last.before[u]

\* a self-test exactly MAGIC_TEST_VALIDITY seconds after a probe that had
\* succeeded: the url is down by now, and the test passes on the cached flag
C20_Witness ==
    /\ last.op = "MagicTest"
    /\ HasResult
    /\ CachedBefore.ok
    /\ last.now - CachedBefore.time = MAGIC_TEST_VALIDITY
    /\ last.page.exc
    /\ ~last.probed
    /\ last.exc = "none"

-----------------------------------------------------------------------------
(* The shape of an answer *)

\* a line that was read: everything but the end of the input
LineRead == last.op = "request" /\ last.exc # "IOError"

\* C21: what is written between the reading of one request line, well
\* formed or not, and the reading of the next is zero or more DATA and LOG
\* lines and then exactly one closing line, END or FAIL; a request of
\* another type than Q closes with FAIL and without END.
C21_OneClosingLine ==
    /\ LineRead =>
          /\ Len(last.out) >= 1
          /\ last.out[Len(last.out)] \in {<<"END">>, <<"FAIL">>}
          /\ \A i \in 1..(Len(last.out) - 1) : last.out[i][1] \in {"DATA", "LOG"}
          /\ pc = "Ready"
    /\ AnsweredNotQ =>
          /\ last.out[Len(last.out)] = <<"FAIL">>
          /\ \A i \in 1..Len(last.out) : last.out[i] # <<"END">>

\* an AXFR request for a domain that has records: no DATA, FAIL, no END
C21_Witness ==
    /\ LineRead
    /\ Len(last.query) = 7
    /\ last.query[1] = "AXFR"
    /\ hgetall(data, KeyOf(Lower(last.query[2]))) # <<>>
    /\ last.out[Len(last.out)] = <<"FAIL">>
    /\ \A i \in 1..Len(last.out) : last.out[i][1] \notin {"DATA", "END"}

-----------------------------------------------------------------------------
(* What a query changes in the store *)

\* C22: a query that returns an empty result, with the wildcard fallback
\* or without it, leaves the whole store as it was: no key is created, no
\* counter field is created and no counter changes.
C22_EmptyQuery ==
    (last.op = "query" /\ last.rv = <<>>) => data = last.before

\* a query with fallback that found nothing, neither under the key of the
\* domain, which has a counter, nor under the wildcard key
C22_Witness ==
    /\ last.op = "query"
    /\ last.wild
    /\ last.rv = <<>>
    /\ QueriedKey = FOO_KEY
    /\ Counter(last.before, FOO_KEY) >= 1
    /\ WILD_KEY \in DOMAIN last.before
    /\ data = last.before

\* the last query found nothing under the key of its domain and was
\* answered from the wildcard key
ByFallback ==
    /\ last.op = "query"
    /\ last.wild
    /\ Matching(last.before, QueriedKey, last.self.record, last.self.data) = {}
    /\ last.rv # <<>>

\* C23: when a query is answered by the wildcard fallback, the store
\* changes in one place only: the counter of the wildcard key goes up by 1.
\* The key of the domain asked for is neither created nor changed, and no
\* other key and no other field changes.
C23_FallbackCounts ==
    ByFallback =>
        /\ QueriedKey # WILD_KEY
        /\ WILD_KEY \in DOMAIN last.before
        /\ data = hset(last.before, WILD_KEY, QC_FIELD,
                       Counter(last.before, WILD_KEY) + 1)
        /\ DOMAIN data = DOMAIN last.before
        /\ \A k \in DOMAIN data \ {WILD_KEY} : data[k] = last.before[k]
        /\ SameValues(last.before, data, WILD_KEY, {QC_FIELD})
        /\ DOMAIN data[WILD_KEY] = DOMAIN last.before[WILD_KEY] \cup {QC_FIELD}
        /\ data[WILD_KEY][QC_FIELD] = Counter(last.before, WILD_KEY) + 1

\* a fallback for a domain whose own key holds a counter: that counter
\* stays at 1 while the counter of the wildcard key goes from 1 to 2
C23_Witness ==
    /\ ByFallback
    /\ QueriedKey = FOO_KEY
    /\ Counter(last.before, FOO_KEY) = 1
    /\ Counter(data, FOO_KEY) = 1
    /\ Counter(last.before, WILD_KEY) = 1
    /\ Counter(data, WILD_KEY) = 2

====
